---- MODULE Spec2Model ----
(***************************************************************************)
(* Model of src/src/stockfish.ts: the UciEngine session (process, stdin,   *)
(* stdout line dispatcher with one waiter slot, timers), evalPosition,     *)
(* parseScoreFromInfoLine, the per-move loop of analyze and                *)
(* cplToMoveScore.                                                         *)
(*                                                                         *)
(* Text is modelled character by character: a string is a sequence of      *)
(* one-character strings.  Fractions are kept exact: a normalizedScore is  *)
(* held in hundredths (0.95 is 95).                                        *)
(***************************************************************************)
EXTENDS Integers, Sequences, FiniteSets, TLC

\* ------------------------------------------------------------------ bounds
MaxMoves == 2       \* longest game replayed by analyze
MaxInfo == 2        \* most progress lines the engine prints in one search
MaxPipe == 36       \* most characters waiting in the stdout pipe
MaxStray == 1       \* most lines the engine prints without being asked
MidCut == 4         \* where a read may end inside the first line of the pipe
MaxStream == 5      \* longest output stream of the stream specification
MaxN == 12          \* numbers -MaxN..MaxN are tried in score announcements
MaxScored == 3      \* longest moveScores list of the function specification
MaxQuitCalls == 2   \* calls of quit() on one session in the session specification

\* --------------------------------------------------------------- constants
DEFAULT_DEPTH == 18
MATE_BASE == 100000

\* -------------------------------------------------------------------- text
STR_readyok == <<"r","e","a","d","y","o","k">>
STR_uciok == <<"u","c","i","o","k">>
STR_bestmove == <<"b","e","s","t","m","o","v","e">>
STR_score_cp == <<"s","c","o","r","e"," ","c","p"," ">>
STR_score_mate == <<"s","c","o","r","e"," ","m","a","t","e"," ">>
LINE_best_e2e4 == <<"b","e","s","t","m","o","v","e"," ","e","2","e","4">>
LINE_best_e2e5 == <<"b","e","s","t","m","o","v","e"," ","e","2","e","5">>
LINE_best_promo == <<"b","e","s","t","m","o","v","e"," ","e","7","e","8","q">>
LINE_best_none == <<"b","e","s","t","m","o","v","e"," ","(","n","o","n","e",")">>
LINE_info_cp150 == <<"i","n","f","o"," ","s","c","o","r","e"," ","c","p"," ","1","5","0">>
LINE_info_matem2 == <<"i","n","f","o"," ","s","c","o","r","e"," ","m","a","t","e"," ","-","2">>
LINE_info_depth == <<"i","n","f","o"," ","d","e","p","t","h"," ","1">>

NL == "\n"
Digits == {"0","1","2","3","4","5","6","7","8","9"}
\* what String.prototype.trim removes (the ones the engine can print)
WhiteSpace == {" ", "\t", "\r", "\n"}
\* \w of a JavaScript regular expression, over the characters used here
WordChars == Digits \cup {"a","b","c","d","e","f","g","h","i","j","k","l","m",
                          "n","o","p","q","r","s","t","u","v","w","x","y","z","_"}

Max(a, b) == IF a >= b THEN a ELSE b
Abs(n) == IF n >= 0 THEN n ELSE 0 - n

\* s.slice(from) with a 1-based index: the characters from `from` on
Tail_(s, from) == SubSeq(s, from, Len(s))

\* s.startsWith(p)
StartsWith(s, p) == Len(s) >= Len(p) /\ SubSeq(s, 1, Len(p)) = p

\* least 1-based index of the character c in s, 0 when it does not occur
RECURSIVE IndexOfChar(_, _, _)
IndexOfChar(s, c, from) ==
    IF from > Len(s) THEN 0
    ELSE IF s[from] = c THEN from
    ELSE IndexOfChar(s, c, from + 1)

\* s.split("\n"): never empty; the last element is what follows the last "\n"
RECURSIVE Split(_)
Split(s) ==
    LET k == IndexOfChar(s, NL, 1)
    IN  IF k = 0 THEN <<s>>
        ELSE <<SubSeq(s, 1, k - 1)>> \o Split(Tail_(s, k + 1))

RECURSIVE TrimStart(_)
TrimStart(s) ==
    IF s # <<>> /\ Head(s) \in WhiteSpace THEN TrimStart(Tail(s)) ELSE s

RECURSIVE TrimEnd(_)
TrimEnd(s) ==
    IF s # <<>> /\ s[Len(s)] \in WhiteSpace THEN TrimEnd(SubSeq(s, 1, Len(s) - 1)) ELSE s

\* line.trim()
Trim(s) == TrimEnd(TrimStart(s))

\* number of leading digits of s (the greedy \d+)
RECURSIVE DigitRun(_)
DigitRun(s) ==
    IF s # <<>> /\ Head(s) \in Digits THEN 1 + DigitRun(Tail(s)) ELSE 0

DigitVal(c) ==
    CASE c = "0" -> 0 [] c = "1" -> 1 [] c = "2" -> 2 [] c = "3" -> 3
      [] c = "4" -> 4 [] c = "5" -> 5 [] c = "6" -> 6 [] c = "7" -> 7
      [] c = "8" -> 8 [] c = "9" -> 9

\* value of a run of decimal digits
RECURSIVE DecValue(_)
DecValue(ds) ==
    IF ds = <<>> THEN 0
    ELSE 10 * DecValue(SubSeq(ds, 1, Len(ds) - 1)) + DigitVal(ds[Len(ds)])

\* parseInt(t, 10) of a text t that matched -?\d+
ParseInt(t) ==
    IF Head(t) = "-" THEN 0 - DecValue(Tail(t)) ELSE DecValue(t)

\* the text matched by (-?\d+) at the start of s, <<>> when it does not match
SignedDigitsAt(s) ==
    IF s # <<>> /\ Head(s) = "-"
    THEN IF DigitRun(Tail(s)) > 0 THEN SubSeq(s, 1, 1 + DigitRun(Tail(s))) ELSE <<>>
    ELSE SubSeq(s, 1, DigitRun(s))

\* line.match(/<key>(-?\d+)/): group 1 of the leftmost match, <<>> for no match
RECURSIVE MatchNumberAfter(_, _)
MatchNumberAfter(line, key) ==
    IF Len(line) < Len(key) THEN <<>>
    ELSE IF StartsWith(line, key) /\ SignedDigitsAt(Tail_(line, Len(key) + 1)) # <<>>
         THEN SignedDigitsAt(Tail_(line, Len(key) + 1))
         ELSE MatchNumberAfter(Tail(line), key)

\* ----------------------------------------------------------------- scoring
\* A value that may be absent (null) is a sequence of length at most one.
Null == <<>>
Some(v) == <<v>>

\* mutant: every mate is taken as White's
MateSign_AlwaysWhite(mateDistance) == 1

\* the sign given to a mate distance
MateSign(mateDistance) == IF mateDistance >= 0 THEN 1 ELSE 0 - 1

MateToCp(mateDistance) == MateSign(mateDistance) * (MATE_BASE - Abs(mateDistance))

parseScoreFromInfoLine(line) ==
    LET cpMatch == MatchNumberAfter(line, STR_score_cp)
        mateMatch == MatchNumberAfter(line, STR_score_mate)
    IN  IF cpMatch # <<>> THEN Some(ParseInt(cpMatch))
        ELSE IF mateMatch # <<>> THEN Some(MateToCp(ParseInt(mateMatch)))
        ELSE Null

\* normalizedScore in hundredths
cplToMoveScore(cpl) ==
    IF cpl <= 10 THEN 100
    ELSE IF cpl <= 30 THEN 95
    ELSE IF cpl <= 60 THEN 80
    ELSE IF cpl <= 100 THEN 60
    ELSE IF cpl <= 200 THEN 30
    ELSE 10

\* mutant: the mover's side is ignored
playerMultiplier_AlwaysWhite(turnBefore) == 1

playerMultiplier(turnBefore) == IF turnBefore = "w" THEN 1 ELSE 0 - 1

\* mutant: the loss is not clamped at zero
CentipawnLoss_NoClamp(evalBest, evalPlayed, turnBefore) ==
    (evalBest - evalPlayed) * playerMultiplier(turnBefore)

\* lines 207-213 of analyze: the clamped centipawn loss
CentipawnLoss(evalBest, evalPlayed, turnBefore) ==
    LET evalBestPersp == evalBest * playerMultiplier(turnBefore)
        evalPlayedPersp == evalPlayed * playerMultiplier(turnBefore)
        cpl == evalBestPersp - evalPlayedPersp
    IN  IF cpl < 0 THEN 0 ELSE cpl

\* the entry pushed on moveScores (line 218)
MoveScoreOf(idx, evalBest, evalPlayed, turnBefore) ==
    LET cpl == CentipawnLoss(evalBest, evalPlayed, turnBefore)
    IN  [idx |-> idx, cpl |-> cpl, score |-> cplToMoveScore(cpl)]

\* bestMoveLine.match(/^bestmove\s+([a-h][1-8][a-h][1-8qrbn]?)\b/): group 1,
\* Null for no match
Files == {"a","b","c","d","e","f","g","h"}
Ranks == {"1","2","3","4","5","6","7","8"}
RankOrPiece == Ranks \cup {"q","r","b","n"}
\* \b right after the first n characters of s, the n-th being a word character
BoundaryAfter(s, n) == n = Len(s) \/ s[n + 1] \notin WordChars

BestMoveMatch(line) ==
    IF ~StartsWith(line, STR_bestmove) THEN Null
    ELSE LET rest == Tail_(line, Len(STR_bestmove) + 1)
             mv == TrimStart(rest)
         IN  IF Len(mv) = Len(rest) THEN Null   \* \s+ needs one blank at least
             ELSE IF ~(Len(mv) >= 3 /\ mv[1] \in Files /\ mv[2] \in Ranks /\ mv[3] \in Files)
                  THEN Null
             ELSE IF Len(mv) >= 4 /\ mv[4] \in RankOrPiece /\ BoundaryAfter(mv, 4)
                  THEN Some(SubSeq(mv, 1, 4))
             ELSE IF BoundaryAfter(mv, 3) THEN Some(SubSeq(mv, 1, 3))
             ELSE Null

\* temp.move({from, to, promotion}) of chess.js on the pre-move position:
\* whether the suggested move can be applied (it throws when it cannot)
ApplicableMoves == {<<"e","2","e","4">>}
CanApply(fromFen, bestMoveUci) == bestMoveUci \in ApplicableMoves

\* ------------------------------------------------------------------- state
VARIABLES
    proc,        \* the engine process: "none", "running", "exited", "failed"
    stdin,       \* the commands written with send(), in order
    eng,         \* the engine: commands read, what it is answering
    pipe,        \* characters the engine wrote to stdout, not yet read
    buffer,      \* UciEngine.buffer
    onLine,      \* UciEngine.onLine, the waiter slot
    timers,      \* pending timeout timers of waits (the two sleeps are in pc)
    waitSeq,     \* number of waits registered so far (names each wait)
    promise,     \* the promise analyze is suspended on
    pc,          \* where analyze is
    moveRecords, \* moveRecords of analyze
    i,           \* 1-based index of the record in the loop
    moveScores,  \* moveScores of analyze
    evalBest,    \* evalBest of the current iteration
    lastScore,   \* lastScore of the running evalPosition
    accuracy,    \* what analyze returned
    seen,        \* history: lines dispatched since the current wait registered
    consumed,    \* history: searches whose bestmove line resolved their wait
    delivered,   \* history (stream specification): all characters read so far
    dispatched,  \* history (stream specification): all lines dispatched so far
    arg,         \* inputs of the function specification
    out          \* results of the function specification

vars == <<proc, stdin, eng, pipe, buffer, onLine, timers, waitSeq, promise, pc,
          moveRecords, i, moveScores, evalBest, lastScore, accuracy, seen,
          consumed, delivered, dispatched, arg, out>>

session == <<buffer, onLine, timers, promise, lastScore>>
analysis == <<stdin, waitSeq, pc, moveRecords, i, moveScores, evalBest, accuracy>>
engine == <<proc, eng, pipe>>
aside == <<delivered, dispatched, arg, out>>

NoHandler == [kind |-> "null", pred |-> "", id |-> 0]
NoPromise == [id |-> 0, state |-> "none", line |-> <<>>, num |-> 0]
NoFen == [ply |-> 0, via |-> "none"]
Cmd(c) == [cmd |-> c, fen |-> NoFen, depth |-> 0]
CmdPosition(fen) == [cmd |-> "position fen", fen |-> fen, depth |-> 0]
CmdGo(depth) == [cmd |-> "go depth", fen |-> NoFen, depth |-> depth]

AwaitPcs == {"awaitReady", "awaitBest", "evalBest", "evalPlayed"}
SearchPcs == {"awaitBest", "evalBest", "evalPlayed"}

\* a settled promise's continuation is a microtask: it runs before any timer
\* or stream callback
MicrotaskPending == pc \in AwaitPcs /\ promise.state \in {"resolved", "rejected"}

\* moveRecords built by replaying the game (lines 146-156): sides alternate
RecordOf(n) ==
    [idx |-> n,
     fromFen |-> [ply |-> n - 1, via |-> "played"],
     toFen |-> [ply |-> n, via |-> "played"],
     turnBefore |-> IF n % 2 = 1 THEN "w" ELSE "b"]
Games == {[n \in 1..len |-> RecordOf(n)] : len \in 0..MaxMoves}

\* ------------------------------------------------------- stdout dispatcher
\* lines 27-31: the lines handed to the dispatch loop, each trimmed
DataLines(buf, chunk) ==
    LET lines == Split(buf \o chunk)
    IN  [k \in 1..(Len(lines) - 1) |-> Trim(lines[k])]

\* mutant: the partial line is thrown away
NewBuffer_DropsPartial(buf, chunk) == <<>>

\* line 29: the partial line kept for the next chunk
NewBuffer(buf, chunk) ==
    LET lines == Split(buf \o chunk)
    IN  lines[Len(lines)]

\* mutant: the readiness predicate accepts any line that ends in "ok"
Predicate_AnyOk(pred, line) ==
    IF pred = "readyok"
    THEN Len(line) >= 2 /\ SubSeq(line, Len(line) - 1, Len(line)) = <<"o", "k">>
    ELSE StartsWith(line, STR_bestmove)

\* the predicates analyze passes to waitForLineMatching (lines 165, 175)
Predicate(pred, line) ==
    IF pred = "readyok" THEN line = STR_readyok
    ELSE StartsWith(line, STR_bestmove)

\* resolve / reject of a promise: a settled promise stays as it is
Resolve(p, id, line, num) ==
    IF p.id = id /\ p.state = "pending"
    THEN [p EXCEPT !.state = "resolved", !.line = line, !.num = num]
    ELSE p
Reject(p, id) ==
    IF p.id = id /\ p.state = "pending" THEN [p EXCEPT !.state = "rejected"] ELSE p

\* mutant: the handler resolves on any line
MatchHandler_AnyLine(d, line) ==
    [d EXCEPT !.timers = @ \ {[kind |-> "wait", id |-> d.onLine.id]},
              !.onLine = NoHandler,
              !.promise = Resolve(@, d.onLine.id, line, 0)]

\* mutant: the handler forgets clearTimeout
MatchHandler_KeepsTimer(d, line) ==
    IF Predicate(d.onLine.pred, line)
    THEN [d EXCEPT !.onLine = NoHandler,
                   !.promise = Resolve(@, d.onLine.id, line, 0)]
    ELSE d

\* lines 56-62: the handler of waitForLineMatching; d is the session
MatchHandler(d, line) ==
    IF Predicate(d.onLine.pred, line)
    THEN [d EXCEPT !.timers = @ \ {[kind |-> "wait", id |-> d.onLine.id]},
                   !.onLine = NoHandler,
                   !.promise = Resolve(@, d.onLine.id, line, 0)]
    ELSE d

\* mutant: the first announced score is kept, later ones are ignored
EvalHandler_FirstScore(d, line) ==
    LET possible == parseScoreFromInfoLine(line)
        ls == IF d.lastScore = Null THEN possible ELSE d.lastScore
    IN  IF StartsWith(line, STR_bestmove)
        THEN [d EXCEPT !.lastScore = ls,
                       !.timers = @ \ {[kind |-> "eval", id |-> d.onLine.id]},
                       !.onLine = NoHandler,
                       !.promise = Resolve(@, d.onLine.id, line,
                                           IF ls = Null THEN 0 ELSE ls[1])]
        ELSE [d EXCEPT !.lastScore = ls]

\* mutant: the evaluation handler forgets clearTimeout
EvalHandler_KeepsTimer(d, line) ==
    LET possible == parseScoreFromInfoLine(line)
        ls == IF possible # Null THEN possible ELSE d.lastScore
    IN  IF StartsWith(line, STR_bestmove)
        THEN [d EXCEPT !.lastScore = ls,
                       !.onLine = NoHandler,
                       !.promise = Resolve(@, d.onLine.id, line,
                                           IF ls = Null THEN 0 ELSE ls[1])]
        ELSE [d EXCEPT !.lastScore = ls]

\* lines 116-131: the handler of evalPosition
EvalHandler(d, line) ==
    LET possible == parseScoreFromInfoLine(line)
        ls == IF possible # Null THEN possible ELSE d.lastScore
    IN  IF StartsWith(line, STR_bestmove)
        THEN [d EXCEPT !.lastScore = ls,
                       !.timers = @ \ {[kind |-> "eval", id |-> d.onLine.id]},
                       !.onLine = NoHandler,
                       !.promise = Resolve(@, d.onLine.id, line,
                                           IF ls = Null THEN 0 ELSE ls[1])]
        ELSE [d EXCEPT !.lastScore = ls]

\* mutant: a score announced while no waiter is registered is kept
CallOnLine_KeepsUnclaimedScore(d, line) ==
    IF d.onLine.kind = "null"
    THEN IF parseScoreFromInfoLine(line) # Null
         THEN [d EXCEPT !.lastScore = parseScoreFromInfoLine(line)]
         ELSE d
    ELSE IF d.onLine.kind = "match" THEN MatchHandler(d, line)
    ELSE EvalHandler(d, line)

\* line 31: if (this.onLine) this.onLine(line.trim())
CallOnLine(d, line) ==
    IF d.onLine.kind = "null" THEN d
    ELSE IF d.onLine.kind = "match" THEN MatchHandler(d, line)
    ELSE EvalHandler(d, line)

\* lines 30-32: the loop over the complete lines of one chunk
RECURSIVE DispatchAll(_, _)
DispatchAll(d, lines) ==
    IF lines = <<>> THEN d
    ELSE DispatchAll(CallOnLine(d, Head(lines)), Tail(lines))

\* lines 26-33 on a chunk: the session afterwards
HandleData(chunk) ==
    LET d0 == [onLine |-> onLine, timers |-> timers, promise |-> promise,
               lastScore |-> lastScore]
        d1 == DispatchAll(d0, DataLines(buffer, chunk))
    IN  /\ buffer' = NewBuffer(buffer, chunk)
        /\ onLine' = d1.onLine
        /\ timers' = d1.timers
        /\ promise' = d1.promise
        /\ lastScore' = d1.lastScore

\* where a read of the pipe may end: after any line, at the end of what is
\* there, or once inside the line that starts it
Cuts(p, buf) ==
    {k \in 1..Len(p) : p[k] = NL \/ k = Len(p) \/ (k = MidCut /\ buf = <<>>)}

\* stdout "data" event with the first k characters of the pipe
OnData ==
    \E k \in Cuts(pipe, buffer) :
        /\ proc # "none"
        /\ ~MicrotaskPending
        /\ HandleData(SubSeq(pipe, 1, k))
        /\ pipe' = Tail_(pipe, k + 1)
        /\ seen' = seen \o DataLines(buffer, SubSeq(pipe, 1, k))
        /\ consumed' = IF /\ pc \in SearchPcs
                          /\ promise.state = "pending"
                          /\ promise'.state = "resolved"
                          /\ StartsWith(promise'.line, STR_bestmove)
                       THEN consumed + 1 ELSE consumed
        /\ UNCHANGED <<proc, eng, analysis, aside>>

\* mutant: the timeout callback rejects but leaves the waiter in the slot
Timeout_KeepsSlot ==
    \E t \in timers :
        /\ ~(pc \in {"awaitReady", "awaitBest", "evalBest", "evalPlayed"}
             /\ promise.state \in {"resolved", "rejected"})
        /\ timers' = timers \ {t}
        /\ promise' = Reject(promise, t.id)
        /\ UNCHANGED <<buffer, onLine, lastScore, stdin, waitSeq, pc, moveRecords, i,
                       moveScores, evalBest, accuracy, proc, eng, pipe, seen, consumed,
                       delivered, dispatched, arg, out>>

\* a timeout callback (lines 51-54 and 111-114): clears the slot whatever it
\* holds, and rejects the wait it belongs to
Timeout ==
    \E t \in timers :
        /\ ~MicrotaskPending
        /\ timers' = timers \ {t}
        /\ onLine' = NoHandler
        /\ promise' = Reject(promise, t.id)
        /\ UNCHANGED <<buffer, lastScore, analysis, engine, seen, consumed, aside>>

\* ----------------------------------------------------------------- analyze
\* lines 49-65: waitForLineMatching(pred, timeout) registers the wait
WaitForLineMatching(pred) ==
    /\ waitSeq' = waitSeq + 1
    /\ timers' = timers \cup {[kind |-> "wait", id |-> waitSeq + 1]}
    /\ onLine' = [kind |-> "match", pred |-> pred, id |-> waitSeq + 1]
    /\ promise' = [id |-> waitSeq + 1, state |-> "pending", line |-> <<>>, num |-> 0]
    /\ seen' = <<>>

\* lines 101-132: evalPosition(engine, fen, depth) up to its suspension
EvalPosition(fen) ==
    /\ stdin' = stdin \o <<CmdPosition(fen), CmdGo(DEFAULT_DEPTH)>>
    /\ lastScore' = Null
    /\ waitSeq' = waitSeq + 1
    /\ timers' = timers \cup {[kind |-> "eval", id |-> waitSeq + 1]}
    /\ onLine' = [kind |-> "eval", pred |-> "", id |-> waitSeq + 1]
    /\ promise' = [id |-> waitSeq + 1, state |-> "pending", line |-> <<>>, num |-> 0]
    /\ seen' = <<>>

\* lines 230-231, the value analyze returns: the mean of the scores times 100,
\* kept as the fraction num/den (scores are in hundredths)
RECURSIVE SumScores(_)
SumScores(ms) == IF ms = <<>> THEN 0 ELSE Head(ms).score + SumScores(Tail(ms))
AccuracyOf_OneTooMany(ms) ==
    IF Len(ms) = 0 THEN [num |-> 0, den |-> 1]
    ELSE [num |-> SumScores(ms), den |-> Len(ms) + 1]
AccuracyOf(ms) ==
    IF Len(ms) = 0 THEN [num |-> 0, den |-> 1]
    ELSE [num |-> SumScores(ms), den |-> Len(ms)]

\* lines 169-175 for record n, or lines 223-224 when the loop is over
StartIteration(n) ==
    /\ i' = n
    /\ IF n <= Len(moveRecords)
       THEN /\ stdin' = stdin \o <<CmdPosition(moveRecords[n].fromFen),
                                   CmdGo(DEFAULT_DEPTH)>>
            /\ WaitForLineMatching("bestmove")
            /\ pc' = "awaitBest"
            /\ UNCHANGED lastScore
       ELSE /\ stdin' = stdin \o <<Cmd("quit")>>
            /\ pc' = "quitting"
            /\ UNCHANGED <<waitSeq, timers, onLine, promise, seen, lastScore>>

\* what spawn() of line 22 can do: start the engine; report that the
\* executable could not be started with an "error" event emitted after the
\* constructor has returned (ENOENT, EACCES, EAGAIN: spawn returns a
\* ChildProcess with its pipes all the same); or throw (every other error)
SpawnOutcomes == {"running", "error event", "throws"}

\* lines 138-162: replay the game, spawn the engine, send "uci", sleep; when
\* spawn throws, the constructor throws and analyze rejects at line 159
Start ==
    /\ pc = "start"
    /\ \E outcome \in SpawnOutcomes :
           /\ proc' = IF outcome = "running" THEN "running" ELSE "failed"
           /\ IF outcome = "throws"
              THEN stdin' = stdin /\ pc' = "rejected"
              ELSE stdin' = stdin \o <<Cmd("uci")>> /\ pc' = "sleeping"
    /\ UNCHANGED <<eng, pipe, buffer, onLine, timers, waitSeq, promise, moveRecords, i,
                   moveScores, evalBest, lastScore, accuracy, seen, consumed, aside>>

\* lines 22-24: no "error" listener is attached to the child process, so the
\* "error" event of a failed spawn is an uncaught exception that ends the
\* Node.js process while analyze is in the sleep of line 162
SpawnError ==
    /\ pc = "sleeping"
    /\ proc = "failed"
    /\ pc' = "crashed"
    /\ UNCHANGED <<stdin, waitSeq, moveRecords, i, moveScores, evalBest, accuracy,
                   session, engine, seen, consumed, aside>>

\* lines 162-165: the 200 ms sleep is over; "isready", wait for "readyok"
AfterSleep ==
    /\ pc = "sleeping"
    /\ proc = "running"
    /\ stdin' = stdin \o <<Cmd("isready")>>
    /\ WaitForLineMatching("readyok")
    /\ pc' = "awaitReady"
    /\ UNCHANGED <<buffer, lastScore, moveRecords, i, moveScores, evalBest, accuracy,
                   engine, consumed, aside>>

\* line 167 and the first pass of the loop: "readyok" has arrived
AfterReady ==
    /\ pc = "awaitReady"
    /\ promise.state = "resolved"
    /\ moveScores' = <<>>
    /\ StartIteration(1)
    /\ UNCHANGED <<buffer, moveRecords, evalBest, accuracy, engine, consumed, aside>>

\* lines 175-203: the suggestion has arrived; skip the record (continue) or
\* start the evaluation of the position after the suggested move
AfterBestMove ==
    /\ pc = "awaitBest"
    /\ promise.state = "resolved"
    /\ LET bmMatch == BestMoveMatch(promise.line)
           rec == moveRecords[i]
       IN  IF bmMatch = Null \/ ~CanApply(rec.fromFen, bmMatch[1])
           THEN StartIteration(i + 1)
           ELSE /\ EvalPosition([ply |-> rec.toFen.ply, via |-> "best"])
                /\ pc' = "evalBest"
                /\ UNCHANGED i
    /\ UNCHANGED <<buffer, moveRecords, moveScores, evalBest, accuracy, engine,
                   consumed, aside>>

\* lines 203-204: evalBest is known; evaluate the position after the played move
AfterEvalBest ==
    /\ pc = "evalBest"
    /\ promise.state = "resolved"
    /\ evalBest' = promise.num
    /\ EvalPosition(moveRecords[i].toFen)
    /\ pc' = "evalPlayed"
    /\ UNCHANGED <<buffer, moveRecords, i, moveScores, accuracy, engine, consumed, aside>>

\* lines 204-221: evalPlayed is known; score the move and go on
AfterEvalPlayed ==
    /\ pc = "evalPlayed"
    /\ promise.state = "resolved"
    /\ moveScores' = Append(moveScores,
                            MoveScoreOf(i, evalBest, promise.num, moveRecords[i].turnBefore))
    /\ StartIteration(i + 1)
    /\ UNCHANGED <<buffer, moveRecords, evalBest, accuracy, engine, consumed, aside>>

AnalyzeRejects_QuitsAndReturns ==
    /\ pc \in AwaitPcs
    /\ promise.state = "rejected"
    /\ stdin' = stdin \o <<Cmd("quit")>>
    /\ pc' = "quitting"
    /\ UNCHANGED <<waitSeq, moveRecords, i, moveScores, evalBest, accuracy,
                   session, engine, seen, consumed, aside>>
\* a rejected wait is not caught anywhere in analyze: analyze rejects
AnalyzeRejects ==
    /\ pc \in AwaitPcs
    /\ promise.state = "rejected"
    /\ pc' = "rejected"
    /\ UNCHANGED <<stdin, waitSeq, moveRecords, i, moveScores, evalBest, accuracy,
                   session, engine, seen, consumed, aside>>

\* lines 68-72 and 226-233: the 50 ms sleep of quit() is over; analyze returns
AfterQuit ==
    /\ pc = "quitting"
    /\ accuracy' = Some(AccuracyOf(moveScores))
    /\ pc' = "done"
    /\ UNCHANGED <<stdin, waitSeq, moveRecords, i, moveScores, evalBest,
                   session, engine, seen, consumed, aside>>

\* ------------------------------------------------------------------ engine
\* The engine is the program at STOCKFISH_CMD (line 22): it reads commands,
\* answers them at its own pace or never, and may print lines of its own.
EOL == IF eng.crlf THEN <<"\r", "\n">> ELSE <<"\n">>
InfoLines == {LINE_info_cp150, LINE_info_matem2, LINE_info_depth}
BestLines == {LINE_best_e2e4, LINE_best_none, LINE_best_e2e5, LINE_best_promo}
StrayLines == {LINE_info_cp150}

Emit(line) ==
    /\ Len(pipe) + Len(line) + Len(EOL) <= MaxPipe
    /\ pipe' = pipe \o line \o EOL

EngineRead ==
    /\ proc = "running"
    /\ eng.mode = "idle"
    /\ eng.read < Len(stdin)
    /\ LET c == stdin[eng.read + 1].cmd
       IN  eng' = [eng EXCEPT !.read = @ + 1,
                              !.infos = 0,
                              !.mode = CASE c = "uci" -> "uci"
                                         [] c = "isready" -> "ready"
                                         [] c = "go depth" -> "search"
                                         [] c = "quit" -> "quit"
                                         [] OTHER -> "idle"]
    /\ UNCHANGED <<proc, pipe, session, analysis, seen, consumed, aside>>

EngineReply ==
    /\ proc = "running"
    /\ eng.mode \in {"uci", "ready"}
    /\ Emit(IF eng.mode = "uci" THEN STR_uciok ELSE STR_readyok)
    /\ eng' = [eng EXCEPT !.mode = "idle"]
    /\ UNCHANGED <<proc, session, analysis, seen, consumed, aside>>

EngineInfo ==
    \E line \in InfoLines :
        /\ proc = "running"
        /\ eng.mode = "search"
        /\ eng.infos < MaxInfo
        /\ Emit(line)
        /\ eng' = [eng EXCEPT !.infos = @ + 1]
        /\ UNCHANGED <<proc, session, analysis, seen, consumed, aside>>

EngineBestMove ==
    \E line \in BestLines :
        /\ proc = "running"
        /\ eng.mode = "search"
        /\ Emit(line)
        /\ eng' = [eng EXCEPT !.mode = "idle"]
        /\ UNCHANGED <<proc, session, analysis, seen, consumed, aside>>

EngineStray ==
    \E line \in StrayLines :
        /\ proc = "running"
        /\ eng.stray < MaxStray
        /\ Emit(line)
        /\ eng' = [eng EXCEPT !.stray = @ + 1]
        /\ UNCHANGED <<proc, session, analysis, seen, consumed, aside>>

EngineExit ==
    /\ proc = "running"
    /\ eng.mode = "quit"
    /\ proc' = "exited"
    /\ UNCHANGED <<eng, pipe, session, analysis, seen, consumed, aside>>

\* ----------------------------------------------------------- specification
Init ==
    /\ proc = "none"
    /\ stdin = <<>>
    /\ eng \in {[read |-> 0, mode |-> "idle", infos |-> 0, stray |-> 0, crlf |-> b] :
                b \in BOOLEAN}
    /\ pipe = <<>>
    /\ buffer = <<>>
    /\ onLine = NoHandler
    /\ timers = {}
    /\ waitSeq = 0
    /\ promise = NoPromise
    /\ pc = "start"
    /\ moveRecords \in Games
    /\ i = 0
    /\ moveScores = <<>>
    /\ evalBest = 0
    /\ lastScore = Null
    /\ accuracy = Null
    /\ seen = <<>>
    /\ consumed = 0
    /\ delivered = <<>>
    /\ dispatched = <<>>
    /\ arg = <<>>
    /\ out = <<>>

Next ==
    \/ Start
    \/ SpawnError
    \/ AfterSleep
    \/ OnData
    \/ Timeout
    \/ AfterReady
    \/ AfterBestMove
    \/ AfterEvalBest
    \/ AfterEvalPlayed
    \/ AnalyzeRejects
    \/ AfterQuit
    \/ EngineRead
    \/ EngineReply
    \/ EngineInfo
    \/ EngineBestMove
    \/ EngineStray
    \/ EngineExit

Spec == Init /\ [][Next]_vars

\* Timers fire and settled promises are continued: the timeout timers of the
\* waits (lines 51, 111), the two sleeps (lines 71, 162), the "error" event of
\* a failed spawn, and every continuation of analyze. Nothing is assumed of
\* the engine or of the arrival of its output.
TimersFire ==
    /\ WF_vars(Timeout)
    /\ WF_vars(AfterSleep)
    /\ WF_vars(AfterQuit)
    /\ WF_vars(SpawnError)
Continues ==
    /\ WF_vars(Start)
    /\ WF_vars(AfterReady)
    /\ WF_vars(AfterBestMove)
    /\ WF_vars(AfterEvalBest)
    /\ WF_vars(AfterEvalPlayed)
    /\ WF_vars(AnalyzeRejects)
SpecLive == Init /\ [][Next]_vars /\ TimersFire /\ Continues

\* ---------------------------------------------------- stream specification
\* The stdout handler alone, on every stream of at most MaxStream characters
\* cut into chunks in every way; a waiter that nothing here matches is
\* registered, so every complete line is tested against it.
StreamAlphabet == {"a", " ", "\n"}
RECURSIVE Streams(_)
Streams(n) ==
    IF n = 0 THEN {<<>>}
    ELSE Streams(n - 1) \cup
         {Append(t, c) : t \in {u \in Streams(n - 1) : Len(u) = n - 1}, c \in StreamAlphabet}

StreamInit ==
    /\ proc = "running"
    /\ stdin = <<Cmd("uci"), Cmd("isready")>>
    /\ eng = [read |-> 2, mode |-> "idle", infos |-> 0, stray |-> 0, crlf |-> FALSE]
    /\ pipe \in Streams(MaxStream)
    /\ buffer = <<>>
    /\ onLine = [kind |-> "match", pred |-> "readyok", id |-> 1]
    /\ timers = {[kind |-> "wait", id |-> 1]}
    /\ waitSeq = 1
    /\ promise = [id |-> 1, state |-> "pending", line |-> <<>>, num |-> 0]
    /\ pc = "awaitReady"
    /\ moveRecords = <<>>
    /\ i = 0
    /\ moveScores = <<>>
    /\ evalBest = 0
    /\ lastScore = Null
    /\ accuracy = Null
    /\ seen = <<>>
    /\ consumed = 0
    /\ delivered = <<>>
    /\ dispatched = <<>>
    /\ arg = <<>>
    /\ out = <<>>

\* stdout "data" event with any non-empty prefix of what is in the pipe
StreamData ==
    \E k \in 1..Len(pipe) :
        /\ HandleData(SubSeq(pipe, 1, k))
        /\ pipe' = Tail_(pipe, k + 1)
        /\ delivered' = delivered \o SubSeq(pipe, 1, k)
        /\ dispatched' = dispatched \o DataLines(buffer, SubSeq(pipe, 1, k))
        /\ UNCHANGED <<proc, eng, analysis, seen, consumed, arg, out>>

StreamNext == StreamData

SpecStream == StreamInit /\ [][StreamNext]_vars

\* -------------------------------------------------- function specification
\* parseScoreFromInfoLine and the scoring arithmetic of analyze on inputs
\* drawn from bounded sets.
DigitChar(d) ==
    CASE d = 0 -> "0" [] d = 1 -> "1" [] d = 2 -> "2" [] d = 3 -> "3"
      [] d = 4 -> "4" [] d = 5 -> "5" [] d = 6 -> "6" [] d = 7 -> "7"
      [] d = 8 -> "8" [] d = 9 -> "9"

\* the decimal text of an integer, as the engine prints it
RECURSIVE ToText(_)
ToText(n) ==
    IF n < 0 THEN <<"-">> \o ToText(0 - n)
    ELSE IF n < 10 THEN <<DigitChar(n)>>
    ELSE ToText(n \div 10) \o <<DigitChar(n % 10)>>

NumberSamples == ((0 - MaxN)..MaxN) \cup {34, 150, 0 - 150, 99999, 0 - 99999}
EvalSamples == {0, 10, 11, 30, 31, 60, 61, 100, 101, 200, 201, 0 - 150, 99997, 0 - 99998}
Prefixes == <<<<>>, <<"i","n","f","o"," ","d","e","p","t","h"," ","1","2"," ">>>>
Suffixes == <<<<>>, <<" ","n","o","d","e","s"," ","7">>>>
KeyOf(kind) ==
    CASE kind = "cp" -> STR_score_cp
      [] kind = "mate" -> STR_score_mate
      [] OTHER -> <<"s","e","l","d","e","p","t","h"," ">>

\* the line an input stands for
LineOf(a) == Prefixes[a.pre] \o KeyOf(a.kind) \o ToText(a.n) \o Suffixes[a.suf]

FunArgs ==
    {[kind |-> k, n |-> n, pre |-> p, suf |-> q, best |-> 0, played |-> 0, turn |-> "w"] :
        k \in {"cp", "mate", "none"}, n \in NumberSamples, p \in 1..2, q \in 1..2}
    \cup
    {[kind |-> "evals", n |-> 0, pre |-> 1, suf |-> 1, best |-> b, played |-> q, turn |-> t] :
        b \in EvalSamples, q \in EvalSamples, t \in {"w", "b"}}
    \cup
    {[kind |-> "scores", n |-> 0, pre |-> 1, suf |-> 1, best |-> 0, played |-> 0, turn |-> "w"]}

\* the moveScores lists of at most MaxScored scored moves, over the six values
\* cplToMoveScore produces
ScoreValues == {cplToMoveScore(c) : c \in {0, 11, 31, 61, 101, 201}}
RECURSIVE ScoreLists(_)
ScoreLists(n) ==
    IF n = 0 THEN {<<>>}
    ELSE ScoreLists(n - 1) \cup
         {Append(ms, [idx |-> n, cpl |-> 0, score |-> v]) :
             ms \in {u \in ScoreLists(n - 1) : Len(u) = n - 1}, v \in ScoreValues}

NoOut == [done |-> FALSE, score |-> Null, ms |-> [idx |-> 0, cpl |-> 0, score |-> 0]]

FunInit ==
    /\ proc = "none"
    /\ stdin = <<>>
    /\ eng = [read |-> 0, mode |-> "idle", infos |-> 0, stray |-> 0, crlf |-> FALSE]
    /\ pipe = <<>>
    /\ buffer = <<>>
    /\ onLine = NoHandler
    /\ timers = {}
    /\ waitSeq = 0
    /\ promise = NoPromise
    /\ pc = "start"
    /\ moveRecords = <<>>
    /\ i = 0
    /\ arg \in FunArgs
    /\ moveScores \in (IF arg.kind = "scores" THEN ScoreLists(MaxScored) ELSE {<<>>})
    /\ evalBest = 0
    /\ lastScore = Null
    /\ accuracy = Null
    /\ seen = <<>>
    /\ consumed = 0
    /\ delivered = <<>>
    /\ dispatched = <<>>
    /\ out = NoOut

ApplyParse ==
    /\ arg.kind \in {"cp", "mate", "none"}
    /\ ~out.done
    /\ out' = [out EXCEPT !.done = TRUE, !.score = parseScoreFromInfoLine(LineOf(arg))]
    /\ UNCHANGED <<session, analysis, engine, seen, consumed, delivered, dispatched, arg>>

ApplyScore ==
    /\ arg.kind = "evals"
    /\ ~out.done
    /\ out' = [out EXCEPT !.done = TRUE,
                          !.ms = MoveScoreOf(1, arg.best, arg.played, arg.turn)]
    /\ UNCHANGED <<session, analysis, engine, seen, consumed, delivered, dispatched, arg>>

\* lines 226-233 on the moveScores list: the value analyze returns
ApplyAccuracy ==
    /\ arg.kind = "scores"
    /\ ~out.done
    /\ accuracy' = Some(AccuracyOf(moveScores))
    /\ out' = [out EXCEPT !.done = TRUE]
    /\ UNCHANGED <<session, engine, stdin, waitSeq, pc, moveRecords, i, moveScores,
                   evalBest, seen, consumed, delivered, dispatched, arg>>

FunNext == ApplyParse \/ ApplyScore \/ ApplyAccuracy

SpecFun == FunInit /\ [][FunNext]_vars

\* --------------------------------------------------- session specification
\* One UciEngine used by a client that calls its operations in any order:
\* one evalPosition, which it does not have to await, and quit() up to
\* MaxQuitCalls times, in whatever state the session and the engine are.
RECURSIVE QuitCount(_)
QuitCount(cmds) ==
    IF cmds = <<>> THEN 0
    ELSE (IF Head(cmds).cmd = "quit" THEN 1 ELSE 0) + QuitCount(Tail(cmds))

\* lines 21-42: the session after new UciEngine()
SessionInit ==
    /\ proc = "running"
    /\ stdin = <<Cmd("uci")>>
    /\ eng = [read |-> 0, mode |-> "idle", infos |-> 0, stray |-> 0, crlf |-> FALSE]
    /\ pipe = <<>>
    /\ buffer = <<>>
    /\ onLine = NoHandler
    /\ timers = {}
    /\ waitSeq = 0
    /\ promise = NoPromise
    /\ pc = "client"
    /\ moveRecords = <<>>
    /\ i = 0
    /\ moveScores = <<>>
    /\ evalBest = 0
    /\ lastScore = Null
    /\ accuracy = Null
    /\ seen = <<>>
    /\ consumed = 0
    /\ delivered = <<>>
    /\ dispatched = <<>>
    /\ arg = <<>>
    /\ out = <<>>

\* lines 101-132: the client starts an evaluation
ClientEval ==
    /\ pc = "client"
    /\ waitSeq = 0
    /\ EvalPosition([ply |-> 0, via |-> "played"])
    /\ UNCHANGED <<buffer, pc, moveRecords, i, moveScores, evalBest, accuracy, engine,
                   consumed, aside>>

\* lines 68-70 and 44-47: quit() writes "quit" to the stdin of the process,
\* whatever state the process is in, and starts its 50 ms sleep
ClientQuit ==
    /\ pc \in {"client", "quitting", "quitReturned"}
    /\ QuitCount(stdin) < MaxQuitCalls
    /\ stdin' = stdin \o <<Cmd("quit")>>
    /\ pc' = "quitting"
    /\ UNCHANGED <<waitSeq, moveRecords, i, moveScores, evalBest, accuracy,
                   session, engine, seen, consumed, aside>>

\* line 71: the 50 ms sleep is over, quit() returns
QuitReturns ==
    /\ pc = "quitting"
    /\ pc' = "quitReturned"
    /\ UNCHANGED <<stdin, waitSeq, moveRecords, i, moveScores, evalBest, accuracy,
                   session, engine, seen, consumed, aside>>

SessionNext ==
    \/ ClientEval
    \/ ClientQuit
    \/ QuitReturns
    \/ OnData
    \/ Timeout
    \/ EngineRead
    \/ EngineReply
    \/ EngineInfo
    \/ EngineBestMove
    \/ EngineExit

SpecSession == SessionInit /\ [][SessionNext]_vars

\* ------------------------------------------------------------------ claims
RECURSIVE GoCount(_)
GoCount(cmds) ==
    IF cmds = <<>> THEN 0
    ELSE (IF Head(cmds).cmd = "go depth" THEN 1 ELSE 0) + GoCount(Tail(cmds))

\* search requests sent whose bestmove line no waiter has consumed yet
InFlight == GoCount(stdin) - consumed

\* the predicate of the waitForLineMatching call analyze is suspended on
CurrentPred == IF pc = "awaitReady" THEN "readyok" ELSE "bestmove"

\* C1: when quit() has returned (analyze is past line 224) the engine process
\* is no longer running, also when the engine never reacts to "quit".
C1_ProcessGoneAfterQuit == pc = "done" => proc = "exited"

\* C2: on every exit path of analyze, return or rejection, the engine process
\* it spawned has been terminated.
C2_ProcessReleasedOnEveryExit == pc \in {"done", "rejected"} => proc # "running"

\* C3: at most one search request is in flight, and a "go depth" is written
\* only when the bestmove line of every earlier request has been consumed by
\* its waiter.
C3_SearchesSerialized ==
    /\ InFlight \in {0, 1}
    /\ (pc \in SearchPcs /\ promise.state = "pending") => InFlight = 1
    /\ (pc \in SearchPcs /\ promise.state = "resolved") =>
          \* the line consumed answers the latest request: the engine has read
          \* every command and owes no answer
          /\ InFlight = 0
          /\ eng.read = Len(stdin)
          /\ eng.mode = "idle"
    /\ pc \in {"start", "sleeping", "awaitReady", "quitting", "done"} => InFlight = 0

C3_Witness == consumed >= 2 /\ pc = "evalPlayed" /\ promise.state = "pending"

\* C4: waitForLineMatching(P) resolves with the first line dispatched since it
\* registered that satisfies P; until then the waiter stays registered with
\* its timer; once resolved the slot is empty and the timer cancelled.
C4_FirstMatchResolves ==
    pc \in {"awaitReady", "awaitBest"} =>
        /\ promise.state = "resolved" =>
              /\ \E m \in 1..Len(seen) :
                    /\ Predicate(CurrentPred, seen[m])
                    /\ \A j \in 1..(m - 1) : ~Predicate(CurrentPred, seen[j])
                    /\ promise.line = seen[m]
              /\ onLine = NoHandler
              /\ [kind |-> "wait", id |-> promise.id] \notin timers
        /\ promise.state = "pending" =>
              /\ \A j \in 1..Len(seen) : ~Predicate(CurrentPred, seen[j])
              /\ onLine = [kind |-> "match", pred |-> CurrentPred, id |-> promise.id]
              /\ [kind |-> "wait", id |-> promise.id] \in timers

C4_Witness ==
    /\ pc = "awaitReady"
    /\ promise.state = "resolved"
    /\ Len(seen) >= 2
    /\ seen[1] # STR_readyok

\* C5: a wait that timed out has failed and left the slot empty, and a line
\* dispatched afterwards neither settles it again nor reaches its handler.
C5_TimeoutClearsSlot ==
    /\ [](promise.state = "rejected" => onLine = NoHandler)
    /\ [][promise.state = "rejected" =>
              /\ promise' = promise
              /\ onLine' = NoHandler
              /\ lastScore' = lastScore
              /\ pc' \in {pc, "rejected"}]_vars

C5_Witness ==
    /\ pc = "rejected"
    /\ promise.state = "rejected"
    /\ i >= 1
    /\ \E j \in 1..Len(seen) : StartsWith(seen[j], STR_bestmove)

\* C6: however the stream is cut into chunks, the lines dispatched are the
\* newline-terminated lines of the concatenated stream, in order and once
\* each, and the unterminated rest is kept back in the buffer.
NewlineCount(s) == Cardinality({k \in 1..Len(s) : s[k] = NL})
NewlinePos(s, j) ==
    IF j = 0 THEN 0
    ELSE CHOOSE k \in 1..Len(s) :
            s[k] = NL /\ Cardinality({m \in 1..k : s[m] = NL}) = j
StreamLines(s) ==
    [j \in 1..NewlineCount(s) |->
        Trim(SubSeq(s, NewlinePos(s, j - 1) + 1, NewlinePos(s, j) - 1))]
StreamRest(s) == SubSeq(s, NewlinePos(s, NewlineCount(s)) + 1, Len(s))

C6_ChunkingIndependent ==
    /\ Len(dispatched) = NewlineCount(delivered)
    /\ \A j \in 1..Len(dispatched) : dispatched[j] = StreamLines(delivered)[j]
    /\ buffer = StreamRest(delivered)

C6_Witness ==
    /\ Len(dispatched) >= 1
    /\ buffer # <<>>
    /\ \E k \in 1..Len(pipe) : pipe[k] = NL

\* C7: evalPosition resolves with the most recent score announced among the
\* lines it consumed up to its bestmove line, and with 0 when there was none;
\* a line without a score leaves the captured score as it is.
TerminalIndex(lines) ==
    CHOOSE m \in 1..Len(lines) :
        /\ StartsWith(lines[m], STR_bestmove)
        /\ \A j \in 1..(m - 1) : ~StartsWith(lines[j], STR_bestmove)
LastAnnounced(lines, upto) ==
    LET scored == {j \in 1..upto : parseScoreFromInfoLine(lines[j]) # Null}
    IN  IF scored = {} THEN Null
        ELSE parseScoreFromInfoLine(
                 lines[CHOOSE j \in scored : \A k \in scored : k <= j])

C7_LastScoreWins ==
    pc \in {"evalBest", "evalPlayed"} =>
        /\ promise.state = "pending" => lastScore = LastAnnounced(seen, Len(seen))
        /\ promise.state = "resolved" =>
              /\ \E m \in 1..Len(seen) : StartsWith(seen[m], STR_bestmove)
              /\ LET last == LastAnnounced(seen, TerminalIndex(seen))
                 IN  promise.num = IF last = Null THEN 0 ELSE last[1]

C7_Witness ==
    /\ pc = "evalBest"
    /\ promise.state = "resolved"
    /\ Len(seen) >= 4
    /\ seen[1] = LINE_info_cp150
    /\ seen[2] = LINE_info_matem2
    /\ seen[3] = LINE_info_depth
    /\ promise.num = 0 - 99998

\* C8 as stated: "score mate N" yields sign(N) * (100000 - |N|) for every
\* integer N, and the sign of the result is the sign of N.
Sign(n) == IF n > 0 THEN 1 ELSE IF n < 0 THEN 0 - 1 ELSE 0

C8_MateFormulaEveryN ==
    (out.done /\ arg.kind = "mate") =>
        /\ out.score = Some(Sign(arg.n) * (100000 - Abs(arg.n)))
        /\ Sign(out.score[1]) = Sign(arg.n)

\* C8 as amended: "score cp X" yields X; "score mate N" yields
\* s * (100000 - |N|) with s = 1 for N >= 0 and s = -1 for N < 0, so mate 0
\* yields 100000; for 0 < |N| < 100000 the sign of the result is the sign of
\* N and its magnitude 100000 - |N| grows as the mate gets shorter; a line
\* with no score announcement yields no score.
C8_ParseScore ==
    (out.done /\ arg.kind # "evals") =>
        /\ arg.kind = "cp" => out.score = Some(arg.n)
        /\ arg.kind = "none" => out.score = Null
        /\ arg.kind = "mate" =>
              /\ out.score = Some((IF arg.n >= 0 THEN 1 ELSE 0 - 1) * (100000 - Abs(arg.n)))
              /\ (arg.n # 0 /\ Abs(arg.n) < 100000) =>
                    /\ Sign(out.score[1]) = Sign(arg.n)
                    /\ Abs(out.score[1]) = 100000 - Abs(arg.n)
              /\ arg.n = 3 => out.score = Some(99997)
              /\ arg.n = 0 - 2 => out.score = Some(0 - 99998)
              /\ arg.n = 0 => out.score = Some(100000)

C8_Witness == out.done /\ arg.kind = "mate" /\ arg.n = 0 /\ out.score = Some(100000)

\* C9: a MoveScore has centipawnLoss >= 0 and a normalizedScore in (0,1] that
\* is the step function 1.00 / 0.95 / 0.80 / 0.60 / 0.30 / 0.10 of the loss
\* (in hundredths here), non-increasing in the loss, for every pair of
\* evaluations, mate-derived ones included.
StepTable == <<<<10, 100>>, <<30, 95>>, <<60, 80>>, <<100, 60>>, <<200, 30>>>>
StepValue(cpl) ==
    LET rows == {r \in 1..Len(StepTable) : cpl <= StepTable[r][1]}
    IN  IF rows = {} THEN 10
        ELSE StepTable[CHOOSE r \in rows : \A q \in rows : r <= q][2]
LossSamples == {0, 1, 10, 11, 30, 31, 60, 61, 100, 101, 200, 201, 100000, 199995}

C9_MoveScoreRange ==
    (out.done /\ arg.kind = "evals") =>
        /\ out.ms.cpl >= 0
        /\ out.ms.score = StepValue(out.ms.cpl)
        /\ out.ms.score > 0 /\ out.ms.score <= 100
        /\ \A c \in LossSamples :
              /\ c >= out.ms.cpl => cplToMoveScore(c) <= out.ms.score
              /\ c <= out.ms.cpl => cplToMoveScore(c) >= out.ms.score

C9_Witness ==
    /\ out.done
    /\ arg.kind = "evals"
    /\ arg.best = 99997 /\ arg.played = 0 - 99998 /\ arg.turn = "w"
    /\ out.ms.cpl = 199995 /\ out.ms.score = 10

\* C10: the MoveScore pushed for a move has centipawnLoss
\* max(0, m * (evalBest - evalPlayed)), m = 1 for the first player and -1 for
\* the second; equal evaluations give loss 0 and score 1.0, a played move 150
\* worse gives loss 150 and score 0.30, and in a one-move game the accuracy
\* is that score as a percentage (100.0 and 30.0).
C10_CentipawnLoss ==
    /\ [][Len(moveScores') = Len(moveScores) + 1 =>
            LET ms == moveScores'[Len(moveScores')]
                m == IF moveRecords[i].turnBefore = "w" THEN 1 ELSE 0 - 1
                evalPlayed == promise.num
            IN  /\ pc = "evalPlayed"
                /\ ms.idx = i
                /\ ms.cpl = Max(0, m * (evalBest - evalPlayed))
                /\ evalBest = evalPlayed => (ms.cpl = 0 /\ ms.score = 100)
                /\ m * (evalBest - evalPlayed) = 150 => (ms.cpl = 150 /\ ms.score = 30)]_vars
    /\ []((pc = "done" /\ Len(moveRecords) = 1 /\ Len(moveScores) = 1) =>
            /\ accuracy = Some([num |-> moveScores[1].score, den |-> 1])
            /\ moveScores[1].cpl = 0 => accuracy = Some([num |-> 100, den |-> 1])
            /\ moveScores[1].cpl = 150 => accuracy = Some([num |-> 30, den |-> 1]))

C10_Witness ==
    /\ pc = "done"
    /\ Len(moveRecords) = 1
    /\ moveScores = <<[idx |-> 1, cpl |-> 150, score |-> 30]>>
    /\ accuracy = Some([num |-> 30, den |-> 1])

\* C11: the accuracy analyze returns is the arithmetic mean of the
\* normalizedScore of the scored moves, times 100: it lies between 0 and 100,
\* it is 0 when no move was scored, and the scores 1.0, 0.8, 0.6 give 80.
\* (scores are in hundredths, the accuracy is the fraction num/den)
RECURSIVE ScoreTotal(_, _)
ScoreTotal(ms, k) == IF k = 0 THEN 0 ELSE ms[k].score + ScoreTotal(ms, k - 1)
ScoresOf(ms) == [k \in 1..Len(ms) |-> ms[k].score]
C11_AccuracyIsMean ==
    accuracy # Null =>
        LET a == accuracy[1]
            n == Len(moveScores)
        IN  /\ a.den >= 1
            /\ IF n = 0 THEN a.num = 0
               ELSE a.num * n = ScoreTotal(moveScores, n) * a.den
            /\ 0 <= a.num
            /\ a.num <= 100 * a.den
            /\ (ScoresOf(moveScores) = <<100, 80, 60>> => a.num = 80 * a.den)
C11_Witness ==
    /\ accuracy # Null
    /\ ScoresOf(moveScores) = <<100, 80, 60>>
    /\ accuracy[1].num = 80 * accuracy[1].den

\* C12: a record whose suggestion is missing or cannot be applied is skipped
\* (no MoveScore, no evaluation search, the next record is taken up, the
\* analysis goes on), a record whose suggestion can be applied goes on to be
\* scored, and the MoveScore indices are strictly ascending.
\* The suggestion is the move the engine names after "bestmove"; the moves that
\* can be applied to the pre-move position are e2e4 and the promotion e7e8q.
SuggestionOf(line) ==
    LET rest == TrimStart(Tail_(line, Len(STR_bestmove) + 1))
        sp == IndexOfChar(rest, " ", 1)
    IN  IF sp = 0 THEN rest ELSE SubSeq(rest, 1, sp - 1)
LegalSuggestions == {<<"e","2","e","4">>, <<"e","7","e","8","q">>}
SuggestionStep ==
    /\ pc = "awaitBest"
    /\ promise.state = "resolved"
    /\ <<pc, waitSeq>>' # <<pc, waitSeq>>
AscendingIndices ==
    /\ \A k \in 1..Len(moveScores) : moveScores[k].idx \in 1..Len(moveRecords)
    /\ \A k \in 1..(Len(moveScores) - 1) : moveScores[k].idx < moveScores[k + 1].idx
C12_EveryApplicableSuggestionScored ==
    /\ [][SuggestionStep =>
             IF SuggestionOf(promise.line) \in LegalSuggestions
             THEN /\ pc' = "evalBest"
                  /\ i' = i
             ELSE /\ moveScores' = moveScores
                  /\ i' = i + 1
                  /\ pc' = IF i < Len(moveRecords) THEN "awaitBest" ELSE "quitting"
                  /\ GoCount(stdin') =
                         GoCount(stdin) + (IF i < Len(moveRecords) THEN 1 ELSE 0)]_vars
    /\ []AscendingIndices

\* C13: a wait that times out rejects, and the rejection ends analyze: from
\* then on nothing is written to the engine, no wait is registered, no
\* MoveScore is recorded and no accuracy is ever produced; the only thing
\* analyze still does is reject.
Aborted == promise.state = "rejected" \/ pc = "rejected"
C13_TimeoutAbortsAnalysis ==
    /\ [][(promise.state = "pending" /\ timers' # timers /\ onLine'.kind = "null"
              /\ promise'.state # "resolved")
             => promise'.state = "rejected" /\ promise'.id = promise.id]_vars
    /\ [][Aborted => /\ stdin' = stdin
                     /\ waitSeq' = waitSeq
                     /\ promise' = promise
                     /\ moveScores' = moveScores
                     /\ accuracy' = Null
                     /\ pc' \in {pc, "rejected"}]_vars
    /\ [](Aborted => accuracy = Null /\ pc \in AwaitPcs \cup {"rejected"})
C13_Witness ==
    /\ pc = "rejected"
    /\ promise.state = "rejected"
    /\ Len(moveRecords) = 2
    /\ Len(moveScores) = 1
    /\ i = 2
    /\ accuracy = Null

\* C14: when the engine executable cannot be launched, analyze rejects at once
\* with the spawn error: nothing has been written to the failed session, no
\* wait has been registered on it, and no accuracy is produced.
C14_SpawnFailureRejectsAtOnce ==
    proc = "failed" =>
        /\ pc = "rejected"
        /\ stdin = <<>>
        /\ waitSeq = 0
        /\ onLine = NoHandler
        /\ accuracy = Null

\* C15: quit() is idempotent and valid in every state: when a call of quit()
\* has returned the process is gone, and a call made when the process has
\* already exited writes nothing to it.
C15_QuitIdempotent ==
    /\ [](pc = "quitReturned" => proc = "exited")
    /\ [][proc = "exited" => stdin' = stdin]_vars

\* C16: when timers fire, every wait that is registered is eventually
\* resolved or rejected, and every call of analyze eventually returns or
\* rejects, whatever the engine prints.
C16_AnalyzeEnds ==
    /\ [](promise.state = "pending" => <>(promise.state \in {"resolved", "rejected"}))
    /\ <>(pc \in {"done", "rejected"})

\* the same for the calls whose engine process was started: these all end
SpawnedAnalyzeEnds ==
    /\ [](promise.state = "pending" => <>(promise.state \in {"resolved", "rejected"}))
    /\ [](proc = "running" => <>(pc \in {"done", "rejected"}))

\* C17: "uci" is the first command written and "isready" the second; no
\* "position" or "go depth" is written before the readiness wait has been
\* resolved by the line "readyok"; the readiness waiter is registered in the
\* step that writes "isready", so a "readyok" the engine has printed is either
\* still on its way or has been given to the waiter: it cannot be missed.
SearchCmds == {"position fen", "go depth"}
NoSearchCmd(cmds) == \A k \in 1..Len(cmds) : cmds[k].cmd \notin SearchCmds
ReadyokPrinted == eng.read > 2 \/ (eng.read = 2 /\ eng.mode # "ready")
ReadyokOnItsWay ==
    LET lines == DataLines(buffer, pipe)
    IN  \E k \in 1..Len(lines) : lines[k] = STR_readyok
HandshakeOrder ==
    /\ (Len(stdin) >= 1 => stdin[1].cmd = "uci")
    /\ (Len(stdin) >= 2 => stdin[2].cmd = "isready")
    /\ (pc \in {"start", "sleeping", "awaitReady"} => NoSearchCmd(stdin))
    /\ (pc = "awaitReady" /\ promise.state = "pending" /\ ReadyokPrinted
          => ReadyokOnItsWay)
C17_Handshake ==
    /\ []HandshakeOrder
    /\ [][(NoSearchCmd(stdin) /\ ~NoSearchCmd(stdin'))
             => /\ pc = "awaitReady"
                /\ promise.id = 1
                /\ promise.state = "resolved"
                /\ promise.line = STR_readyok]_vars
    /\ [][(Len(stdin) = 1 /\ Len(stdin') > 1)
             => /\ stdin' = stdin \o <<Cmd("isready")>>
                /\ onLine' = [kind |-> "match", pred |-> "readyok", id |-> 1]
                /\ promise'.state = "pending"
                /\ pipe' = pipe
                /\ buffer' = buffer]_vars
C17_Witness ==
    /\ pc = "awaitBest"
    /\ Len(stdin) = 4
    /\ stdin[1].cmd = "uci"
    /\ stdin[2].cmd = "isready"
    /\ stdin[3].cmd = "position fen"
    /\ stdin[4].cmd = "go depth"
    /\ waitSeq = 2

\* C18: every wait is settled exactly once, and its timer never outlives it:
\* a settled wait never changes again, a pending timer always belongs to the
\* wait that is pending and in the slot, and when a timeout callback runs it
\* clears the slot of its own wait, never the slot of a later one.
TimerOfCurrentWait ==
    /\ Cardinality(timers) <= 1
    /\ \A t \in timers :
          /\ t.id = promise.id
          /\ promise.state = "pending"
          /\ onLine.id = t.id
          /\ t.kind = (IF onLine.kind = "eval" THEN "eval" ELSE "wait")
    /\ (promise.state = "pending" => timers # {} /\ onLine.id = promise.id)
    /\ (promise.state \in {"resolved", "rejected"} => onLine = NoHandler)
TimerFires == \E t \in timers : t \notin timers' /\ promise'.state # "resolved"
C18_SettledOnce ==
    /\ []TimerOfCurrentWait
    /\ [][(promise.state \in {"resolved", "rejected"} /\ promise'.id = promise.id)
             => promise' = promise]_vars
    /\ [][promise'.id # promise.id
             => promise'.id = promise.id + 1 /\ promise'.state = "pending"]_vars
    /\ [][TimerFires => /\ onLine.id = promise.id
                        /\ promise.state = "pending"
                        /\ promise'.state = "rejected"
                        /\ promise'.id = promise.id]_vars
C18_Witness ==
    /\ waitSeq = 4
    /\ promise.id = 4
    /\ promise.state = "rejected"
    /\ timers = {}
    /\ consumed = 2

\* C19: a line dispatched while no waiter is registered is discarded: it
\* changes nothing and is not kept for a later waiter (the buffer never holds
\* a complete line, and a wait starts with nothing seen and no score); the
\* lines that follow the matching line in the same chunk are dropped; so the
\* score of an evalPosition is made of the lines dispatched from its
\* registration up to its bestmove line and of nothing else.
DataStep == Len(pipe') < Len(pipe)
ChunkLines == DataLines(buffer, SubSeq(pipe, 1, Len(pipe) - Len(pipe')))
Matches(h, line) ==
    IF h.kind = "eval" THEN StartsWith(line, STR_bestmove)
    ELSE IF h.pred = "readyok" THEN line = STR_readyok
    ELSE StartsWith(line, STR_bestmove)
FirstMatch(h, lines) ==
    CHOOSE m \in 1..Len(lines) :
        /\ Matches(h, lines[m])
        /\ \A j \in 1..(m - 1) : ~Matches(h, lines[j])
ScoreOver(lines) ==
    LET last == LastAnnounced(lines, Len(lines))
    IN  IF last = Null THEN 0 ELSE last[1]
C19_UnclaimedLinesDiscarded ==
    /\ [](\A k \in 1..Len(buffer) : buffer[k] # NL)
    /\ [][(DataStep /\ onLine.kind = "null")
             => UNCHANGED <<onLine, timers, promise, lastScore>>]_vars
    /\ [][(DataStep /\ onLine.kind # "null" /\ onLine'.kind = "null")
             => LET m == FirstMatch(onLine, ChunkLines)
                    own == seen \o SubSeq(ChunkLines, 1, m)
                IN  /\ \E j \in 1..Len(ChunkLines) : Matches(onLine, ChunkLines[j])
                    /\ promise'.state = "resolved"
                    /\ promise'.line = ChunkLines[m]
                    /\ onLine.kind = "eval" =>
                          /\ promise'.num = ScoreOver(own)
                          /\ lastScore' = LastAnnounced(own, Len(own))]_vars
    /\ [][promise'.id # promise.id
             => /\ seen' = <<>>
                /\ onLine'.kind = "eval" => lastScore' = Null]_vars
C19_Witness ==
    /\ pc = "evalPlayed"
    /\ promise.state = "resolved"
    /\ seen = <<LINE_best_e2e4, LINE_info_cp150>>
    /\ promise.num = 0
    /\ lastScore = Null
    /\ eng.stray = 1

====
